---------------------------- MODULE Spec2Model ----------------------------
(***************************************************************************)
(* Unplanned Reoperation Risk Prediction System (app.py).                  *)
(*                                                                         *)
(* app.py is a Streamlit script.  Every accepted widget interaction makes  *)
(* the framework execute the script again from its first line in a fresh   *)
(* namespace; only the widget values (keyed by feature name) survive a     *)
(* run.  st.button returns True in the one run its click started.  The     *)
(* model follows one browser session through these runs, one action per    *)
(* statement group of the script, with pc the script's position.           *)
(*                                                                         *)
(* Probabilities are integers in basis points (Scale = 1.0).               *)
(***************************************************************************)
EXTENDS Integers, Sequences, FiniteSets, TLC

VARIABLES
    artifact,     \* content of best_model.pkl on disk (the environment)
    model,        \* app.py:9   None or Some(loaded classifier)
    config,       \* app.py:12  VARIABLE_CONFIG of this run, <<>> before line 12
    session,      \* widget values kept by the framework under key=feature
    inputs,       \* app.py:76  the inputs dict, in insertion order
    rendered,     \* labels of the widgets generated by this run, in order
    button,       \* app.py:90  TRUE when this run was started by "Predict Risk"
    pc,           \* position of the script
    input_df,     \* app.py:93  None or Some(single-row frame)
    proba,        \* app.py:96  None or Some(basis points)
    explainer,    \* app.py:110 None or Some(explainer)
    shap_values,  \* app.py:111 None or Some(per-feature contributions)
    page,         \* what the handler of this run has displayed, in order
    trace,        \* classifier/explainer calls made by this run, in order
    loads,        \* number of joblib.load calls so far
    explainers,   \* number of shap.TreeExplainer constructions so far
    requests,     \* number of "Predict Risk" clicks so far
    edits,        \* number of edit attempts so far
    refused,      \* None or Some(the offer the widget has just refused)
    remembered    \* None or Some(record and outcome of an earlier request)

vars == <<artifact, model, config, session, inputs, rendered, button, pc,
          input_df, proba, explainer, shap_values, page, trace, loads,
          explainers, requests, edits, refused, remembered>>

(* Bounds of the exploration. *)
MaxEdits == 2
MaxRequests == 3

None == <<>>
Some(x) == <<x>>

-----------------------------------------------------------------------------
(* Schema registry, app.py:12-68.  A Python dict keeps insertion order. *)

\* fault: "Duration of surgery" bounded as a duration in minutes
VARIABLE_CONFIG_Widened ==
    << [name |-> "Sex", min |-> 0, max |-> 1,
        description |-> "Patient gender (0=Female, 1=Male)"],
       [name |-> "ASA scores", min |-> 0, max |-> 5,
        description |-> "ASA physical status classification"],
       [name |-> "tumor location", min |-> 1, max |-> 4,
        description |-> "Tumor location code (1-4)"],
       [name |-> "Benign or malignant", min |-> 0, max |-> 1,
        description |-> "Tumor nature (0=Benign, 1=Malignant)"],
       [name |-> "Admitted to NICU", min |-> 0, max |-> 1,
        description |-> "NICU admission status"],
       [name |-> "Duration of surgery", min |-> 0, max |-> 600,
        description |-> "Surgery duration category"],
       [name |-> "diabetes", min |-> 0, max |-> 1,
        description |-> "Diabetes mellitus status"],
       [name |-> "CHF", min |-> 0, max |-> 1,
        description |-> "Congestive heart failure"],
       [name |-> "Functional dependencies", min |-> 0, max |-> 1,
        description |-> "Functional dependencies"],
       [name |-> "mFI-5", min |-> 0, max |-> 5,
        description |-> "Modified Frailty Index"],
       [name |-> "Type of tumor", min |-> 1, max |-> 5,
        description |-> "Tumor type code (1-5)"] >>

VARIABLE_CONFIG ==
    << [name |-> "Sex", min |-> 0, max |-> 1,
        description |-> "Patient gender (0=Female, 1=Male)"],
       [name |-> "ASA scores", min |-> 0, max |-> 5,
        description |-> "ASA physical status classification"],
       [name |-> "tumor location", min |-> 1, max |-> 4,
        description |-> "Tumor location code (1-4)"],
       [name |-> "Benign or malignant", min |-> 0, max |-> 1,
        description |-> "Tumor nature (0=Benign, 1=Malignant)"],
       [name |-> "Admitted to NICU", min |-> 0, max |-> 1,
        description |-> "NICU admission status"],
       [name |-> "Duration of surgery", min |-> 0, max |-> 1,
        description |-> "Surgery duration category"],
       [name |-> "diabetes", min |-> 0, max |-> 1,
        description |-> "Diabetes mellitus status"],
       [name |-> "CHF", min |-> 0, max |-> 1,
        description |-> "Congestive heart failure"],
       [name |-> "Functional dependencies", min |-> 0, max |-> 1,
        description |-> "Functional dependencies"],
       [name |-> "mFI-5", min |-> 0, max |-> 5,
        description |-> "Modified Frailty Index"],
       [name |-> "Type of tumor", min |-> 1, max |-> 5,
        description |-> "Tumor type code (1-5)"] >>

NumFields == Len(VARIABLE_CONFIG)
Fields == 1..NumFields

-----------------------------------------------------------------------------
(* The number_input widget, app.py:80-87. *)

\* step=1
NumberInputStep == 1

\* fault: value=0
DefaultValueZero(cfg) == 0

\* value=config["min"]: the value of a widget that has no stored value yet
DefaultValue(cfg) == cfg.min

\* fault: max_value left out
NumberInputAcceptsNoMax(cfg, v) == v >= cfg.min

\* min_value=config["min"], max_value=config["max"]: the widget only commits
\* a value inside its range
NumberInputAccepts(cfg, v) == v >= cfg.min /\ v <= cfg.max

\* label=f"{feature} ({config['description']})"
WidgetLabel(cfg) == <<cfg.name, " (", cfg.description, ")">>

\* key=feature: the value number_input returns is the stored one, or the
\* default when the widget is created for the first time
WidgetValue(cfg) ==
    IF cfg.name \in DOMAIN session THEN session[cfg.name] ELSE DefaultValue(cfg)

\* fault: the registry is walked in reverse
IterationOrderReversed(cfgs) == [i \in 1..Len(cfgs) |-> Len(cfgs) + 1 - i]

\* for i, (feature, config) in enumerate(VARIABLE_CONFIG.items()):
\*     inputs[feature] = st.number_input(...)
IterationOrder(cfgs) == [i \in 1..Len(cfgs) |-> i]

\* fault: the last registry entry gets no input
BuildInputsShort(cfgs) ==
    [k \in 1..(Len(cfgs) - 1) |->
        [name |-> cfgs[k].name, value |-> WidgetValue(cfgs[k])]]

BuildInputs(cfgs) ==
    [k \in 1..Len(IterationOrder(cfgs)) |->
        [name  |-> cfgs[IterationOrder(cfgs)[k]].name,
         value |-> WidgetValue(cfgs[IterationOrder(cfgs)[k]])]]

RenderedLabels(cfgs) ==
    [k \in 1..Len(IterationOrder(cfgs)) |->
        WidgetLabel(cfgs[IterationOrder(cfgs)[k]])]

-----------------------------------------------------------------------------
(* pd.DataFrame([inputs]), app.py:93: one row, the columns in the order of *)
(* the dict's keys.                                                        *)

DataFrame(dicts) ==
    [columns |-> [i \in 1..Len(dicts[1]) |-> dicts[1][i].name],
     rows    |-> [r \in 1..Len(dicts) |->
                    [i \in 1..Len(dicts[r]) |-> dicts[r][i].value]]]

-----------------------------------------------------------------------------
(* The classifier artifact and the explainer library: external code, taken *)
(* as a deterministic function of the artifact and the frame, which either *)
(* returns or raises.  An artifact names the call at which it raises.      *)

\* one unit of probability, in basis points
Scale == 10000

\* the literal 0.5 of app.py:97-98
Half == 5000

Artifacts ==
    [failAt : {"none", "load", "TreeExplainer", "force_plot"}, onlyWhen : {"always"}]
        \cup [failAt : {"predict_proba", "shap_values"}, onlyWhen : {"Sex=1"}]

\* the per-column contributions and the base value of the fitted classifier
Weights == <<4, 30, -2, 3000, 150, 90, 60, -4, 2500, 40, 3>>
Bias == 4999

Raises(m, call, df) ==
    /\ m.failAt = call
    /\ \/ m.onlyWhen = "always"
       \/ /\ Len(df.rows) >= 1
          /\ Len(df.rows[1]) >= 1
          /\ df.rows[1][1] = 1

\* str(e)
ErrorMessage(call) == <<call, " failed">>

RECURSIVE Dot(_, _, _)
Dot(w, row, n) ==
    IF n = 0 THEN 0
    ELSE Dot(w, row, n - 1)
         + (IF n \in DOMAIN w /\ n \in DOMAIN row THEN w[n] * row[n] ELSE 0)

Clip(p) == IF p < 0 THEN 0 ELSE IF p > Scale THEN Scale ELSE p

\* model.predict_proba(input_df): per row, <<P(class 0), P(class 1)>>
PredictProba(m, df) ==
    [r \in 1..Len(df.rows) |->
        << Scale - Clip(Bias + Dot(Weights, df.rows[r], Len(df.rows[r]))),
           Clip(Bias + Dot(Weights, df.rows[r], Len(df.rows[r]))) >>]

\* explainer.shap_values(input_df): per row, the signed contributions
ShapValues(m, df) ==
    [r \in 1..Len(df.rows) |->
        [i \in 1..Len(df.rows[r]) |->
            IF i \in DOMAIN Weights THEN Weights[i] * df.rows[r][i] ELSE 0]]

\* explainer.expected_value
ExpectedValue(m) == Bias

-----------------------------------------------------------------------------
(* Display, app.py:97-105 and 113-127. *)

Item(kind, text, value, data) ==
    [kind |-> kind, text |-> text, value |-> value, data |-> data]

\* fault: proba >= 0.5
RiskLevelAtLeast(p) == IF p >= Half THEN "High Risk" ELSE "Low Risk"

\* risk_level = "High Risk" if proba > 0.5 else "Low Risk"
RiskLevel(p) == IF p > Half THEN "High Risk" ELSE "Low Risk"

\* color = "#FF4B4B" if proba > 0.5 else "#00CC96"
Color(p) == IF p > Half THEN "#FF4B4B" ELSE "#00CC96"

\* f"{proba:.1%}": tenths of a percent, ties to even
FormatPercent(p) ==
    LET q == p \div 10
        r == p % 10
    IN  IF r > 5 \/ (r = 5 /\ q % 2 = 1) THEN q + 1 ELSE q

Abs(x) == IF x < 0 THEN 0 - x ELSE x

ResultItems(p) ==
    << Item("risk_level", <<RiskLevel(p), Color(p)>>, p, <<>>),
       Item("probability", <<"Reoperation Probability: ", "%">>,
            FormatPercent(p), <<>>) >>

SummaryPlotItem(sv) ==
    Item("summary_plot", <<"Global Feature Importance">>, 0,
         [i \in 1..Len(sv[1]) |-> Abs(sv[1][i])])

ForcePlotItem(base, contrib) ==
    Item("force_plot", <<"Individual Feature Impact">>, base, contrib)

\* st.error(f"Error: {str(e)}")
ErrorItem(call) == Item("error", <<"Error: ">> \o ErrorMessage(call), 0, <<>>)

\* fault: the output of the previous run stays on the page
StalePage == page

\* a run starts from an empty page
FreshPage == <<>>


-----------------------------------------------------------------------------
(* One script run.                                                         *)

Init ==
    /\ artifact \in Artifacts
    /\ model = None
    /\ config = <<>>
    /\ session = <<>>
    /\ inputs = <<>>
    /\ rendered = <<>>
    /\ button = FALSE
    /\ pc = "load"
    /\ input_df = None
    /\ proba = None
    /\ explainer = None
    /\ shap_values = None
    /\ page = <<>>
    /\ trace = <<>>
    /\ loads = 0
    /\ explainers = 0
    /\ requests = 0
    /\ edits = 0
    /\ refused = None
    /\ remembered = None

\* app.py:8-9  model = joblib.load(model_path); outside any try
LoadModel ==
    /\ pc = "load"
    /\ loads' = loads + 1
    /\ IF Raises(artifact, "load", DataFrame(<< <<>> >>))
       THEN /\ pc' = "aborted"
            /\ page' = Append(page, Item("uncaught", ErrorMessage("load"), 0, <<>>))
            /\ UNCHANGED model
       ELSE /\ pc' = "config"
            /\ model' = Some(artifact)
            /\ UNCHANGED page
    /\ UNCHANGED <<artifact, config, session, inputs, rendered, button,
                   input_df, proba, explainer, shap_values, trace,
                   explainers, requests, edits, refused, remembered>>

\* app.py:12-68  VARIABLE_CONFIG = {...}
DefineConfig ==
    /\ pc = "config"
    /\ config' = VARIABLE_CONFIG
    /\ pc' = "inputs"
    /\ UNCHANGED <<artifact, model, session, inputs, rendered, button,
                   input_df, proba, explainer, shap_values, page, trace,
                   loads, explainers, requests, edits, refused, remembered>>

\* app.py:76-90  the widgets are generated, then the button is read
RenderInputs ==
    /\ pc = "inputs"
    /\ inputs' = BuildInputs(config)
    /\ rendered' = RenderedLabels(config)
    /\ session' = [n \in {config[i].name : i \in 1..Len(config)} |->
                     LET i == CHOOSE j \in 1..Len(config) : config[j].name = n
                     IN  WidgetValue(config[i])]
    /\ pc' = IF button THEN "try" ELSE "idle"
    /\ UNCHANGED <<artifact, model, config, button, input_df, proba,
                   explainer, shap_values, page, trace, loads, explainers,
                   requests, edits, refused, remembered>>

\* fault: no try/except around the handler
ExceptUncaught(call) ==
    /\ page' = Append(page, Item("uncaught", ErrorMessage(call), 0, <<>>))
    /\ pc' = "aborted"

\* fault: the error message replaces what the handler has displayed
ExceptReplacing(call) ==
    /\ page' = <<ErrorItem(call)>>
    /\ pc' = "idle"

\* app.py:126-127  except Exception as e: st.error(f"Error: {str(e)}")
Except(call) ==
    /\ page' = Append(page, ErrorItem(call))
    /\ pc' = "idle"

\* app.py:93  input_df = pd.DataFrame([inputs])
MakeFrame ==
    /\ pc = "try"
    /\ input_df' = Some(DataFrame(<<inputs>>))
    /\ pc' = "predict"
    /\ UNCHANGED <<artifact, model, config, session, inputs, rendered, button,
                   proba, explainer, shap_values, page, trace, loads,
                   explainers, requests, edits, refused, remembered>>

\* app.py:96  proba = model.predict_proba(input_df)[0][1]
Predict ==
    /\ pc = "predict"
    /\ trace' = Append(trace, "predict_proba")
    /\ IF Raises(model[1], "predict_proba", input_df[1])
       THEN /\ Except("predict_proba")
            /\ UNCHANGED proba
       ELSE /\ proba' = Some(PredictProba(model[1], input_df[1])[1][2])
            /\ pc' = "show"
            /\ UNCHANGED page
    /\ UNCHANGED <<artifact, model, config, session, inputs, rendered, button,
                   input_df, explainer, shap_values, loads, explainers,
                   requests, edits, refused, remembered>>

\* app.py:97-105  the risk label and the probability are displayed
ShowResults ==
    /\ pc = "show"
    /\ page' = page \o ResultItems(proba[1])
    /\ pc' = "explainer"
    /\ UNCHANGED <<artifact, model, config, session, inputs, rendered, button,
                   input_df, proba, explainer, shap_values, trace, loads,
                   explainers, requests, edits, refused, remembered>>

\* fault: the explainer is built by the first request only and then reused
MakeExplainerCached ==
    /\ pc = "explainer"
    /\ trace' = Append(trace, "TreeExplainer")
    /\ explainers' = IF explainers = 0 THEN 1 ELSE explainers
    /\ IF Raises(model[1], "TreeExplainer", input_df[1])
       THEN /\ Except("TreeExplainer")
            /\ UNCHANGED explainer
       ELSE /\ explainer' = Some([model |-> model[1]])
            /\ pc' = "shap_values"
            /\ UNCHANGED page
    /\ UNCHANGED <<artifact, model, config, session, inputs, rendered, button,
                   input_df, proba, shap_values, loads, requests, edits,
                   refused, remembered>>

\* app.py:110  explainer = shap.TreeExplainer(model)
MakeExplainer ==
    /\ pc = "explainer"
    /\ trace' = Append(trace, "TreeExplainer")
    /\ explainers' = explainers + 1
    /\ IF Raises(model[1], "TreeExplainer", input_df[1])
       THEN /\ Except("TreeExplainer")
            /\ UNCHANGED explainer
       ELSE /\ explainer' = Some([model |-> model[1]])
            /\ pc' = "shap_values"
            /\ UNCHANGED page
    /\ UNCHANGED <<artifact, model, config, session, inputs, rendered, button,
                   input_df, proba, shap_values, loads, requests, edits,
                   refused, remembered>>

\* app.py:111  shap_values = explainer.shap_values(input_df)
ComputeShap ==
    /\ pc = "shap_values"
    /\ trace' = Append(trace, "shap_values")
    /\ IF Raises(explainer[1].model, "shap_values", input_df[1])
       THEN /\ Except("shap_values")
            /\ UNCHANGED shap_values
       ELSE /\ shap_values' = Some(ShapValues(explainer[1].model, input_df[1]))
            /\ pc' = "summary_plot"
            /\ UNCHANGED page
    /\ UNCHANGED <<artifact, model, config, session, inputs, rendered, button,
                   input_df, proba, explainer, loads, explainers, requests,
                   edits, refused, remembered>>

\* app.py:113-115  shap.summary_plot(...); st.pyplot(fig_global)
GlobalPlot ==
    /\ pc = "summary_plot"
    /\ trace' = Append(trace, "summary_plot")
    /\ IF Raises(explainer[1].model, "summary_plot", input_df[1])
       THEN Except("summary_plot")
       ELSE /\ page' = Append(page, SummaryPlotItem(shap_values[1]))
            /\ pc' = "force_plot"
    /\ UNCHANGED <<artifact, model, config, session, inputs, rendered, button,
                   input_df, proba, explainer, shap_values, loads, explainers,
                   requests, edits, refused, remembered>>

\* app.py:117-124  shap.force_plot(...); st.pyplot(fig_local); the run ends
LocalPlot ==
    /\ pc = "force_plot"
    /\ trace' = Append(trace, "force_plot")
    /\ IF Raises(explainer[1].model, "force_plot", input_df[1])
       THEN Except("force_plot")
       ELSE /\ page' = Append(page, ForcePlotItem(ExpectedValue(explainer[1].model),
                                                  shap_values[1][1]))
            /\ pc' = "idle"
    /\ UNCHANGED <<artifact, model, config, session, inputs, rendered, button,
                   input_df, proba, explainer, shap_values, loads, explainers,
                   requests, edits, refused, remembered>>

-----------------------------------------------------------------------------
(* User events, accepted while the script is not running.                  *)

\* the framework runs app.py again from line 1 in a fresh namespace
Rerun(clicked) ==
    /\ pc' = "load"
    /\ button' = clicked
    /\ model' = None
    /\ config' = <<>>
    /\ inputs' = <<>>
    /\ rendered' = <<>>
    /\ input_df' = None
    /\ proba' = None
    /\ explainer' = None
    /\ shap_values' = None
    /\ page' = FreshPage
    /\ trace' = <<>>

\* a new value is offered to the widget of field f
Commit(kind, f, v) ==
    /\ edits' = edits + 1
    /\ IF NumberInputAccepts(config[f], v)
       THEN /\ session' = [session EXCEPT ![config[f].name] = v]
            /\ refused' = None
            /\ Rerun(FALSE)
       ELSE /\ refused' = Some([kind |-> kind, value |-> v])
            /\ UNCHANGED <<session, pc, button, model, config, inputs, rendered,
                        input_df, proba, explainer, shap_values, page, trace>>
    /\ UNCHANGED <<artifact, loads, explainers, requests, remembered>>

\* the "+" button of number_input
StepUp(f) ==
    /\ pc = "idle"
    /\ edits < MaxEdits
    /\ Commit("step_up", f, session[config[f].name] + NumberInputStep)

\* the "-" button of number_input
StepDown(f) ==
    /\ pc = "idle"
    /\ edits < MaxEdits
    /\ Commit("step_down", f, session[config[f].name] - NumberInputStep)

\* the numbers a user is taken to type: the ends of the range, their outer
\* neighbours and, into "ASA scores", 7
TypedValues(cfg) ==
    {cfg.min - 1, cfg.min, cfg.max, cfg.max + 1}
        \cup (IF cfg.name = "ASA scores" THEN {7} ELSE {})

\* a number typed into the field
Type(f, v) ==
    /\ pc = "idle"
    /\ edits < MaxEdits
    /\ v # session[config[f].name]
    /\ Commit("type", f, v)

\* app.py:90  st.button("Predict Risk") is clicked
Submit ==
    /\ pc = "idle"
    /\ requests < MaxRequests
    /\ requests' = requests + 1
    /\ refused' = None
    /\ Rerun(TRUE)
    /\ UNCHANGED <<artifact, session, loads, explainers, edits, remembered>>

\* the observer keeps one completed request, to compare later ones with, and
\* notes whether it was made on the untouched form
Remember ==
    /\ pc = "idle"
    /\ button
    /\ requests < MaxRequests
    /\ remembered = None
    /\ remembered' = Some([untouched |-> edits = 0,
                           record |-> input_df[1].rows[1],
                           outcome |-> page])
    /\ UNCHANGED <<artifact, model, config, session, inputs, rendered, button,
                   pc, input_df, proba, explainer, shap_values, page, trace,
                   loads, explainers, requests, edits, refused>>

Next ==
    \/ LoadModel
    \/ DefineConfig
    \/ RenderInputs
    \/ MakeFrame
    \/ Predict
    \/ ShowResults
    \/ MakeExplainer
    \/ ComputeShap
    \/ GlobalPlot
    \/ LocalPlot
    \/ \E f \in Fields : StepUp(f)
    \/ \E f \in Fields : StepDown(f)
    \/ \E f \in Fields : \E v \in TypedValues(VARIABLE_CONFIG[f]) : Type(f, v)
    \/ Submit

Spec == Init /\ [][Next]_vars

\* the same program, watched by the observer
NextObserved ==
    \/ Next
    \/ Remember

SpecObserved == Init /\ [][NextObserved]_vars

-----------------------------------------------------------------------------
(* The properties.  FieldTable is the field table of the specification,    *)
(* <<name, min, max>> per field, in its order.                             *)

FieldTable ==
    << <<"Sex", 0, 1>>, <<"ASA scores", 0, 5>>, <<"tumor location", 1, 4>>,
       <<"Benign or malignant", 0, 1>>, <<"Admitted to NICU", 0, 1>>,
       <<"Duration of surgery", 0, 1>>, <<"diabetes", 0, 1>>, <<"CHF", 0, 1>>,
       <<"Functional dependencies", 0, 1>>, <<"mFI-5", 0, 5>>,
       <<"Type of tumor", 1, 5>> >>

TableNames == [i \in 1..Len(FieldTable) |-> FieldTable[i][1]]
TableMins == [i \in 1..Len(FieldTable) |-> FieldTable[i][2]]

HandlerPcs == {"try", "predict", "show", "explainer", "shap_values",
               "summary_plot", "force_plot"}

Kinds(p) == [i \in 1..Len(p) |-> p[i].kind]
Last(q) == q[Len(q)]
Called(call) == \E i \in 1..Len(trace) : trace[i] = call
RequestDone == pc = "idle" /\ button

\* C1: whenever a risk label is displayed, it is High exactly when the
\* probability the classifier returned is strictly above 0.5; a probability
\* of exactly 0.5, and any lower one, is labelled Low.
C1_Threshold ==
    \A i \in 1..Len(page) :
        page[i].kind = "risk_level" =>
            /\ proba # None
            /\ page[i].value = proba[1]
            /\ page[i].text[1] \in {"High Risk", "Low Risk"}
            /\ (page[i].text[1] = "High Risk") <=> (2 * proba[1] > Scale)

\* a completed prediction whose probability is exactly 0.5, labelled Low
C1_Witness ==
    /\ RequestDone
    /\ proba # None
    /\ 2 * proba[1] = Scale
    /\ \E i \in 1..Len(page) :
          page[i].kind = "risk_level" /\ page[i].text[1] = "Low Risk"

C3_Original ==
    (refused # None /\ refused[1] = [kind |-> "type", value |-> 7]) =>
        \E i \in 1..Len(page) : page[i].kind = "OutOfRange"

OutOfTable(f, v) == v < FieldTable[f][2] \/ v > FieldTable[f][3]

NothingRan ==
    UNCHANGED <<session, pc, button, model, config, inputs, input_df, proba,
                explainer, shap_values, page, trace, loads, explainers,
                requests>>

\* the values the step may have offered to the widget of field f: the one
\* now stored, or the one now refused
Offered(f) ==
    {session'[FieldTable[f][1]]}
        \cup (IF refused' # None THEN {refused'[1].value} ELSE {})

\* C3 amended: an out-of-range value offered to a field's widget is refused
\* by the widget: the stored value stays, no script run starts, nothing is
\* displayed and no classifier or explainer call is made for it.
C3_Refusal ==
    [][edits' # edits =>
        \A f \in Fields :
          /\ \A v \in Offered(f) :
                (Type(f, v) /\ OutOfTable(f, v)) =>
                    (refused' = Some([kind |-> "type", value |-> v]) /\ NothingRan)
          /\ (StepUp(f) /\ OutOfTable(f, session[FieldTable[f][1]] + 1)) =>
                (refused' # None /\ NothingRan)
          /\ (StepDown(f) /\ OutOfTable(f, session[FieldTable[f][1]] - 1)) =>
                (refused' # None /\ NothingRan)]_vars

\* "ASA scores" has just been given 7 and nothing has run or been displayed
C3_Witness ==
    /\ refused = Some([kind |-> "type", value |-> 7])
    /\ pc = "idle"
    /\ session["ASA scores"] <= 5
    /\ page = <<>>
    /\ trace = <<>>

\* C4: a classifier or explainer call that raises inside the handler ends the
\* request with the inline message "Error: <message>" as the last thing
\* displayed; the run is never aborted by it, no call is repeated, nothing is
\* called after the call that raised, and a further submit is accepted.
C4_Caught ==
    /\ pc = "aborted" => (trace = <<>> /\ model = None)
    /\ \A i \in 1..Len(trace) :
          Raises(artifact, trace[i], input_df[1]) =>
              /\ i = Len(trace)
              /\ pc = "idle"
              /\ page # <<>>
              /\ Last(page).kind = "error"
              /\ Last(page).text = <<"Error: ", trace[i], " failed">>
              /\ requests < MaxRequests => ENABLED Submit
    /\ \A i, j \in 1..Len(trace) : trace[i] = trace[j] => i = j

\* a second request has been handled after an earlier one, and ended with
\* the error of the attribution call
C4_Witness ==
    /\ RequestDone
    /\ requests = 2
    /\ trace # <<>>
    /\ Last(trace) = "shap_values"
    /\ page # <<>>
    /\ Last(page).kind = "error"

\* C5: the widgets are generated, the inputs collected and the columns of the
\* frame given to the classifier and the explainer laid out in the order of
\* the field table, in every run, each column holding its own field's value.
C5_FieldOrder ==
    /\ rendered # <<>> => [i \in 1..Len(rendered) |-> rendered[i][1]] = TableNames
    /\ inputs # <<>> => [i \in 1..Len(inputs) |-> inputs[i].name] = TableNames
    /\ input_df # None =>
          /\ input_df[1].columns = TableNames
          /\ \A i \in 1..Len(TableNames) :
                input_df[1].rows[1][i] = session[TableNames[i]]

\* a second request, on an edited record, has reached the attribution call
C5_Witness ==
    /\ pc = "shap_values"
    /\ requests = 2
    /\ input_df # None
    /\ input_df[1].rows[1][Len(FieldTable)] = 5

\* C6: once defined in a run, the registry is the field table: the eleven
\* names in order with their bounds, min <= max, the names unique; it is
\* undefined only before line 12 of a run, and no step gives it another value.
C6_Registry ==
    /\ config = <<>> <=> pc \in {"load", "config", "aborted"}
    /\ config # <<>> =>
          /\ [i \in 1..Len(config) |-> <<config[i].name, config[i].min, config[i].max>>]
                = FieldTable
          /\ \A i \in 1..Len(config) : config[i].min <= config[i].max
          /\ \A i, j \in 1..Len(config) : config[i].name = config[j].name => i = j

\* after an edit and a request the registry is still the table
C6_Witness ==
    /\ RequestDone
    /\ edits >= 1
    /\ Len(config) = 11

C8_Deterministic ==
    (RequestDone /\ remembered # None
        /\ remembered[1].record = input_df[1].rows[1]) =>
            remembered[1].outcome = page

\* a request made before any edit was remembered, a later one was made on
\* another record (its classifier call raised, the only one of the three
\* that did), and the third is on the remembered record again
C8_Witness ==
    /\ RequestDone
    /\ artifact.failAt = "predict_proba"
    /\ requests = 3
    /\ explainers = 2
    /\ remembered # None
    /\ remembered[1].untouched
    /\ remembered[1].record = input_df[1].rows[1]
    /\ Last(page).kind = "force_plot"

OthersKept(f) ==
    \A g \in Fields : g # f => session'[FieldTable[g][1]] = session[FieldTable[g][1]]

\* C9: before any edit every field holds its minimum, so a submit without
\* edits predicts on the all-minimum record; the "+" and "-" buttons move one
\* field by exactly 1, and a typed value that is accepted replaces one field.
C9_Defaults ==
    /\ [](/\ (edits = 0 /\ inputs # <<>>) =>
                [i \in 1..Len(inputs) |-> inputs[i].value] = TableMins
          /\ (edits = 0 /\ input_df # None) => input_df[1].rows[1] = TableMins)
    /\ [][(edits' # edits /\ refused' = None) =>
            \A f \in Fields :
              /\ StepUp(f) =>
                    /\ session'[FieldTable[f][1]] = session[FieldTable[f][1]] + 1
                    /\ OthersKept(f)
              /\ StepDown(f) =>
                    /\ session'[FieldTable[f][1]] = session[FieldTable[f][1]] - 1
                    /\ OthersKept(f)
              /\ \A v \in Offered(f) :
                    Type(f, v) =>
                        (session'[FieldTable[f][1]] = v /\ OthersKept(f))]_vars

\* a submit without edits has reached the classifier with the all-minimum
\* record
C9_Witness ==
    /\ pc = "predict"
    /\ edits = 0
    /\ input_df = Some([columns |-> TableNames, rows |-> <<TableMins>>])

\* C10: the risk label and the probability are on the page before the
\* explainer is constructed; a request whose explainer construction or
\* attribution call raised ends showing label, probability and error, and a
\* request whose classifier call raised ends showing the error alone.
C10_PartialResult ==
    /\ (Called("TreeExplainer") \/ pc = "explainer") =>
          /\ Len(page) >= 2
          /\ page[1].kind = "risk_level"
          /\ page[2].kind = "probability"
    /\ (RequestDone /\ Last(trace) \in {"TreeExplainer", "shap_values"}
            /\ Raises(artifact, Last(trace), input_df[1])) =>
          Kinds(page) = <<"risk_level", "probability", "error">>
    /\ (RequestDone /\ Last(trace) = "predict_proba") =>
          Kinds(page) = <<"error">>

\* the explainer construction raised after the result had been displayed
C10_Witness ==
    /\ RequestDone
    /\ Last(trace) = "TreeExplainer"
    /\ Kinds(page) = <<"risk_level", "probability", "error">>

=============================================================================
